---- MODULE Spec2Model ----
(***************************************************************************)
(* Model of the content-addressed block directory of Conserve:             *)
(* BlockDir (compress_and_store, contains, get, block_names) and           *)
(* StoreFiles::store_file_content, run by several handles over one         *)
(* directory on a shared filesystem.                                       *)
(***************************************************************************)
EXTENDS Integers, Sequences, FiniteSets, TLC

\* ------------------------------------------------------------------ bounds
\* number of StoreFiles handles (threads) working on the one BlockDir
NWriters == 2
\* window size of StoreFiles.input_buf, scaled down from the crate's value
MAX_BLOCK_SIZE == 2
\* longest stream given to a handle in the concurrent specification
MaxStreamLen == 2
\* a stream of the sequential specification holds at most MaxChunks windows
MaxChunks == 2
\* store_file_content calls per handle
MaxCalls == 2

\* ------------------------------------------------------- program constants
BLAKE_HASH_SIZE_BYTES == 64
BLOCKDIR_FILE_NAME_LEN == BLAKE_HASH_SIZE_BYTES * 2
SUBDIR_NAME_CHARS == 3
TMP_PREFIX == "tmp"

\* ------------------------------------------------------------ basic values
Writers == 1..NWriters
\* the byte values streams are made of ('@' and 'A')
Byte == {64, 65}

Min(a, b) == IF a < b THEN a ELSE b

RECURSIVE SeqsUpTo(_, _)
SeqsUpTo(S, n) ==
    IF n = 0 THEN {<<>>}
    ELSE LET shorter == SeqsUpTo(S, n - 1)
         IN  shorter \cup {Append(s, b) : s \in shorter, b \in S}

\* streams of the concurrent specification
Streams == SeqsUpTo(Byte, MaxStreamLen)
\* streams of the sequential specification
SeqStreams == SeqsUpTo(Byte, MaxChunks * MAX_BLOCK_SIZE)

RECURSIVE SumSeq(_)
SumSeq(s) == IF s = <<>> THEN 0 ELSE Head(s) + SumSeq(Tail(s))

RECURSIVE Repeat(_, _)
Repeat(x, n) == IF n = 0 THEN <<>> ELSE <<x>> \o Repeat(x, n - 1)

IsPrefix(p, s) == Len(p) <= Len(s) /\ SubSeq(s, 1, Len(p)) = p

\* ------------------------------------------------------------------ hasher
HexDigits ==
    <<"0", "1", "2", "3", "4", "5", "6", "7",
      "8", "9", "a", "b", "c", "d", "e", "f">>

\* hex::encode of a byte slice: two lowercase hex characters per byte
RECURSIVE HexEncode(_)
HexEncode(bytes) ==
    IF bytes = <<>> THEN ""
    ELSE HexDigits[(Head(bytes) \div 16) + 1] \o HexDigits[(Head(bytes) % 16) + 1]
         \o HexEncode(Tail(bytes))

\* The 64-byte BLAKE2b digest, as a collision-free function of the input:
\* a check byte, the length, the input itself, zero padding.
Blake2b(in_buf) ==
    LET head == <<SumSeq(in_buf) % 2, Len(in_buf)>> \o in_buf
    IN  head \o Repeat(0, BLAKE_HASH_SIZE_BYTES - Len(head))

\* a hasher that digests only the first byte of the block
hash_bytes_first_byte(in_buf) == HexEncode(Blake2b(SubSeq(in_buf, 1, 1)))

hash_bytes(in_buf) == HexEncode(Blake2b(in_buf))

\* -------------------------------------------------------------- compressor
\* Length of the run of equal bytes that buf starts with.
LeadRun(buf) ==
    CHOOSE n \in 1..Len(buf) :
        /\ \A i \in 1..n : buf[i] = buf[1]
        /\ (n = Len(buf) \/ buf[n + 1] # buf[1])

RECURSIVE Runs(_)
Runs(buf) ==
    IF buf = <<>> THEN <<>>
    ELSE LET n == LeadRun(buf)
         IN  <<n, buf[1]>> \o Runs(SubSeq(buf, n + 1, Len(buf)))

\* Snappy::compress_and_write: a stream identifier, then the framed data
SnappyCompress(in_buf) == <<255>> \o Runs(in_buf)

RECURSIVE Expand(_)
Expand(c) ==
    IF Len(c) < 2 THEN <<>>
    ELSE Repeat(c[2], c[1]) \o Expand(SubSeq(c, 3, Len(c)))

\* snappy::decompress_file on the bytes of a file: (compressed_len, bytes),
\* or an error for a stream that is not a complete framed stream
SnappyDecompress(c) ==
    IF /\ Len(c) >= 1
       /\ c[1] = 255
       /\ (Len(c) - 1) % 2 = 0
       /\ \A i \in 1..((Len(c) - 1) \div 2) : c[2 * i] >= 1
    THEN [ok |-> TRUE, compressed_len |-> Len(c), bytes |-> Expand(Tail(c))]
    ELSE [ok |-> FALSE, compressed_len |-> Len(c), bytes |-> <<>>]


\* ------------------------------------------------------------------- state
VARIABLES
    dirs,       \* names of the subdirectories that exist under BlockDir.path
    files,      \* path |-> [data, ino] of every regular file under them
    pc,         \* where each handle is in store_file_content / compress_and_store
    source,     \* the whole stream each handle's current call was given
    from_file,  \* what the call's reader has not yet delivered
    reads,      \* the lengths of the reads the reader has answered in this call
    input_buf,  \* StoreFiles.input_buf, reused from window to window
    read_len,   \* bytes of input_buf filled by the last read
    block_hash, \* hash of the current window
    addresses,  \* the current call's address list
    sizes,      \* the current call's Sizes
    report,     \* the Report each handle passes to its calls
    calls,      \* store_file_content calls each handle has started
    results,    \* what each handle's finished calls returned, oldest first
    back,       \* bytes read back with get() from the last call's addresses
    names,      \* what the latest block_names() yielded, until the next operation
    nested,     \* paths of the entries of subdirectories that are directories
    unreadable, \* the directories whose listing fails ("" is BlockDir.path)
    validation, \* what the latest validate() returned, until the next operation
    got,        \* what the latest get() of a caller-made address returned
    failure,    \* the error the call of each handle returned, if it failed
    count,      \* Report.count of each Report of report.rs made so far
    rejected,   \* the counter names Report::increment has panicked on
    passed,     \* per Report and known name, the deltas passed so far, summed
    merged,     \* the latest merge_from call and the counts it started from
    read_buf,   \* LocalTransport.read_buf of each LocalTransport made so far
    returned,   \* what the latest call on a LocalTransport returned
    copying     \* the copy_tree call: its options, its place in the source
                \* tree, what it handed to the destination, its stats

vars ==
    <<dirs, files, pc, source, from_file, reads, input_buf, read_len, block_hash,
      addresses, sizes, report, calls, results, back, names,
      nested, unreadable, validation, got, failure, count, rejected,
      passed, merged, read_buf, returned, copying>>

\* the variables of the filesystem, of a call in progress, of a handle's caller
fsVars == <<dirs, files>>
windowVars == <<input_buf, read_len, block_hash>>
callVars == <<source, from_file, reads, addresses, sizes, report>>
callerVars == <<calls, results, back>>
\* what a step of a store leaves alone: the entries and faults the
\* surroundings put in the directory, the outcome of a failed call, the
\* Reports of report.rs
reportVars == <<count, rejected, passed, merged>>
transportVars == <<read_buf, returned>>
besideVars == <<reportVars, transportVars, copying>>
outsideVars == <<nested, unreadable, failure, besideVars>>
\* everything of the block directory, its handles and its surroundings
blockdirVars ==
    <<fsVars, pc, windowVars, callVars, callerVars, names,
      nested, unreadable, validation, got, failure>>

\* ---------------------------------------------------------------- counters
CounterNames ==
    {"block.already_present", "block.write", "block.read",
     "file.empty", "file.medium", "file.large"}

NewReport == [n \in CounterNames |-> 0]

\* Report.increment as the block directory uses it: a known counter grows by
\* delta, an unknown name is rejected
Increment(r, counter_name, delta) ==
    IF counter_name \in DOMAIN r
    THEN [r EXCEPT ![counter_name] = @ + delta]
    ELSE r

\* ------------------------------------------------------------------- paths
block_name_to_subdirectory(block_hash_) == SubSeq(block_hash_, 1, SUBDIR_NAME_CHARS)

subdir_for(hash_hex) == block_name_to_subdirectory(hash_hex)

path_for_file(hash_hex) == <<subdir_for(hash_hex), hash_hex>>

\* the name tempfile gives the temporary file of handle w: the prefix and a
\* suffix no other temporary file in use has
TmpName(w) == TMP_PREFIX \o "00000" \o HexDigits[w + 1]

\* the temporary file created at the block's final path
TmpPathFinal(w) == path_for_file(block_hash[w])

TmpPath(w) == <<subdir_for(block_hash[w]), TmpName(w)>>

\* the whole reused buffer taken as the window, stale bytes included
BlockSliceWholeBuf(buf, n) == buf

\* the bytes of the window being stored: &self.input_buf[..read_len]
BlockSlice(buf, n) == SubSeq(buf, 1, n)

block_data(w) == BlockSlice(input_buf[w], read_len[w])

\* ------------------------------------------------------- filesystem effects
\* a removal that leaves the file where it is
KeepFile(fs, p) == fs

\* unlink(2), as NamedTempFile::close and the drop of a NamedTempFile call it
RemoveFile(fs, p) == [q \in DOMAIN fs \ {p} |-> fs[q]]

CreateFile(fs, p, f) == [q \in DOMAIN fs \cup {p} |-> IF q = p THEN f ELSE fs[q]]

\* a rename that, finding its target, only unlinks it
RenameUnlinkFirst(fs, from, to) ==
    IF to \in DOMAIN fs
    THEN [q \in DOMAIN fs \ {to} |-> fs[q]]
    ELSE [q \in (DOMAIN fs \ {from}) \cup {to} |-> IF q = to THEN fs[from] ELSE fs[q]]

\* rename(2): the file at `from` becomes the file at `to`, replacing what was there
Rename(fs, from, to) ==
    [q \in (DOMAIN fs \ {from}) \cup {to} |-> IF q = to THEN fs[from] ELSE fs[q]]

\* What NamedTempFile::persist can answer, given whether the target exists.
\* persist renames over an existing target; the AlreadyExists answer is the
\* one compress_and_store provides a branch for.
PersistOutcomes(target_exists) ==
    IF target_exists THEN {"replaced", "AlreadyExists"} ELSE {"created"}

\* contains() looking for the block directly under the root
contains_at_root(hash) == <<"", hash>> \in DOMAIN files

\* ----------------------------------------------------------- BlockDir reads
contains(hash) == path_for_file(hash) \in DOMAIN files

get_block_content(hash) ==
    LET path == path_for_file(hash)
    IN  IF path \notin DOMAIN files
        THEN [outcome |-> "ReadBlock", bytes |-> <<>>,
              sizes |-> [uncompressed |-> 0, compressed |-> 0]]
        ELSE LET d == SnappyDecompress(files[path].data)
             IN  IF d.ok
                 THEN [outcome |-> "ok", bytes |-> d.bytes,
                       sizes |-> [uncompressed |-> Len(d.bytes),
                                  compressed |-> d.compressed_len]]
                 ELSE [outcome |-> "ReadBlock", bytes |-> <<>>,
                       sizes |-> [uncompressed |-> 0, compressed |-> 0]]

get(addr) ==
    IF addr.start # 0
    THEN [outcome |-> "panic", bytes |-> <<>>,
          sizes |-> [uncompressed |-> 0, compressed |-> 0]]
    ELSE LET r == get_block_content(addr.hash)
         IN  IF r.outcome # "ok" THEN r
             ELSE IF Len(r.bytes) # addr.len
             THEN [outcome |-> "panic", bytes |-> <<>>,
                   sizes |-> [uncompressed |-> 0, compressed |-> 0]]
             ELSE r


\* ------------------------------------------------------------- enumeration
RECURSIVE PermSeqs(_)
PermSeqs(S) ==
    IF S = {} THEN {<<>>}
    ELSE UNION {{<<x>> \o p : p \in PermSeqs(S \ {x})} : x \in S}

\* subdirs() without its filter on the length of the name
subdirs_any_len == dirs

\* subdirs(): the subdirectories whose name has SUBDIR_NAME_CHARS characters
subdirs == {dd \in dirs : Len(dd) = SUBDIR_NAME_CHARS}

\* BlockDir.path itself, as a directory that can be listed
Root == ""

\* fs::read_dir of the subdirectory s: its regular files and its directories
ReadDir(s) == {p \in DOMAIN files \cup nested : p[1] = s}

\* entry.file_type().unwrap().is_file()
is_file(p) == p \in DOMAIN files

\* the filter of iter_block_dir_entries on the name of an entry
IsBlockEntry(name) ==
    /\ ~IsPrefix(TMP_PREFIX, name)
    /\ Len(name) = BLOCKDIR_FILE_NAME_LEN

\* every subdirectory listed with the entries of all of them
ShardEntriesAll(s) == {p[2] : p \in {q \in DOMAIN files : IsBlockEntry(q[2])}}

ShardEntries(s) == {p[2] : p \in {q \in ReadDir(s) : is_file(q) /\ IsBlockEntry(q[2])}}

\* Every sequence iter_block_dir_entries can yield over the subdirectories ss:
\* the subdirectories in the order listed, the entries of each in the order
\* its read_dir gives them.
RECURSIVE Listings(_)
Listings(ss) ==
    IF ss = {} THEN {<<>>}
    ELSE UNION {{here \o rest : here \in PermSeqs(ShardEntries(s)),
                                rest \in Listings(ss \ {s})} : s \in ss}

block_names == Listings(subdirs)

\* How iter_block_dir_entries ends when its iterator is run to the end:
\* subdirs() failing gives the ListBlocks error, read_dir failing on a
\* subdirectory panics in unwrap()
list_outcome ==
    IF Root \in unreadable THEN "ListBlocks"
    ELSE IF subdirs \cap unreadable # {} THEN "panic"
    ELSE "ok"

NotListed == [listed |-> FALSE, seq |-> <<>>, outcome |-> "none"]

NotValidated == [done |-> FALSE]

NotGot == [tried |-> FALSE]

\* a step that is not an enumeration, a validation or a caller's get leaves
\* no result of one behind
Unobserved ==
    /\ names' = NotListed
    /\ validation' = NotValidated
    /\ got' = NotGot

\* ---------------------------------------------------------------- validate
\* ValidateBlockDirStats::default()
ValidateBlockDirStats == [block_hash_wrong |-> 0, block_decompression_failed |-> 0]

\* the hash validate_block takes of the compressed bytes of the file
actual_hash_of_file(hash, decompressed_bytes) ==
    HexEncode(Blake2b(files[path_for_file(hash)].data))

\* hex::encode(blake2b(BLAKE_HASH_SIZE_BYTES, &[], &decompressed_bytes))
actual_hash_of(hash, decompressed_bytes) == HexEncode(Blake2b(decompressed_bytes))

\* validate_block: Ok, or the error of get_block_content, or BlockCorrupt
validate_block(hash) ==
    LET r == get_block_content(hash)
    IN  IF r.outcome # "ok"
        THEN [outcome |-> "ReadBlock", path |-> path_for_file(hash)]
        ELSE LET actual_hash == actual_hash_of(hash, r.bytes)
             IN  IF actual_hash # hash
                 THEN [outcome |-> "BlockCorrupt", path |-> path_for_file(hash),
                       actual_hash |-> actual_hash]
                 ELSE [outcome |-> "ok"]

\* the names block_names_and_sizes collects (the sizes only feed the progress bar)
block_names_and_sizes == UNION {ShardEntries(s) : s \in subdirs}

\* Everything validate() can return, with the blocks it got to decompress.
\* The blocks are checked in parallel and try_for_each stops at an error: of
\* several failing blocks any one gives the error returned, and any of the
\* other blocks may or may not have been checked by then.  A validate that
\* returns Ok returns the stats it made at its start.
validate ==
    IF list_outcome # "ok"
    THEN {[done |-> TRUE, outcome |-> list_outcome, checked |-> {}]}
    ELSE LET bns == block_names_and_sizes
             failing == {bn \in bns : validate_block(bn).outcome # "ok"}
         IN  IF failing = {}
             THEN {[done |-> TRUE, outcome |-> "ok",
                    stats |-> ValidateBlockDirStats, checked |-> bns]}
             ELSE UNION {{[done |-> TRUE, outcome |-> validate_block(bn).outcome,
                           error |-> validate_block(bn), checked |-> c \cup {bn}] :
                             c \in SUBSET bns} : bn \in failing}

\* --------------------------------------------------------------- report.rs
KNOWN_COUNTERS ==
    <<"backup.file.count",
      "backup.skipped.unsupported_file_kind",
      "block.read.count",
      "block.read.corrupt",
      "block.read.misplaced",
      "block.write.already_present",
      "block.write.compressed_bytes",
      "block.write.count",
      "block.write.uncompressed_bytes",
      "index.write.compressed_bytes",
      "index.write.uncompressed_bytes",
      "index.write.hunks",
      "source.selected.count",
      "source.skipped.unsupported_file_kind",
      "source.visited.directories.count">>

\* the Reports the callers of report.rs hold
Reports == {1, 2}

KnownNames == {KNOWN_COUNTERS[i] : i \in 1..Len(KNOWN_COUNTERS)}

\* Report::new(): every known counter, at 0
ReportNew ==
    [counter_name \in {KNOWN_COUNTERS[i] : i \in 1..Len(KNOWN_COUNTERS)} |-> 0]

\* an increment that stores delta in place of adding it
increment_set(c, counter_name, delta) ==
    IF counter_name \in DOMAIN c
    THEN [outcome |-> "ok", count |-> [c EXCEPT ![counter_name] = delta]]
    ELSE [outcome |-> "panic", count |-> c]

\* Report::increment: a counter in the map grows by delta, any other name
\* panics ("unregistered counter")
increment(c, counter_name, delta) ==
    IF counter_name \in DOMAIN c
    THEN [outcome |-> "ok", count |-> [c EXCEPT ![counter_name] = @ + delta]]
    ELSE [outcome |-> "panic", count |-> c]

\* Report::get_count: the counter, or 0 for a name not in the map
get_count(c, counter_name) ==
    IF counter_name \in DOMAIN c THEN c[counter_name] ELSE 0

\* merge_from adding only one of from_report's counters
merge_from_one(self_count, from_count) ==
    LET name == CHOOSE n \in DOMAIN from_count :
                    \A o \in DOMAIN from_count : from_count[o] <= from_count[n]
    IN  increment(self_count, name, from_count[name])

\* the loop of merge_from over the entries of from_report.count not yet
\* visited: each is passed to self.increment, whose panic ends the loop
RECURSIVE MergeEntries(_, _, _)
MergeEntries(self_count, from_count, todo) ==
    IF todo = {} THEN [outcome |-> "ok", count |-> self_count]
    ELSE LET name == CHOOSE n \in todo : TRUE
             r == increment(self_count, name, from_count[name])
         IN  IF r.outcome = "panic" THEN r
             ELSE MergeEntries(r.count, from_count, todo \ {name})

\* Report::merge_from
merge_from(self_count, from_count) ==
    MergeEntries(self_count, from_count, DOMAIN from_count)

\* no merge_from call is the latest call on a Report
NotMerged == [done |-> FALSE]

\* ------------------------------------------------------ transport/local.rs
\* the files under the root of the transports, by relpath, and their content
RootFiles ==
    [relpath \in {"poem.txt", "a", "empty"} |->
        IF relpath = "poem.txt" THEN <<64, 65, 64>>
        ELSE IF relpath = "a" THEN <<65>> ELSE <<>>]

\* the relpaths callers pass to read_file: the files, and a name of no file
Relpaths == DOMAIN RootFiles \cup {"missing"}

\* how many bytes the reads of a file can deliver: all of them, or fewer
\* when a read fails; none for a name that cannot be opened
Deliveries(relpath) ==
    IF relpath \in DOMAIN RootFiles THEN 0..Len(RootFiles[relpath]) ELSE {0}

\* a truncate that leaves the buffer as it is
truncate_keep(buf, len) == buf

\* Vec::truncate
truncate(buf, len) == SubSeq(buf, 1, Min(len, Len(buf)))

\* Read::read_to_end when the reads deliver `delivered` bytes of the file:
\* what was read is appended to buf, also when a read then fails
read_to_end(buf, data, delivered) ==
    [outcome |-> IF delivered = Len(data) THEN "ok" ELSE "Err",
     buf |-> buf \o SubSeq(data, 1, delivered)]

\* LocalTransport::read_file, with the number of bytes the file's reads
\* deliver: the buffer as the call leaves it, and what the call returns
read_file(buf, relpath, delivered) ==
    LET truncated == truncate(buf, 0)
    IN  IF relpath \notin DOMAIN RootFiles
        THEN [outcome |-> "Err", read_buf |-> truncated, bytes |-> <<>>]
        ELSE LET r == read_to_end(truncated, RootFiles[relpath], delivered)
             IN  [outcome |-> r.outcome, read_buf |-> r.buf,
                  bytes |-> IF r.outcome = "ok" THEN r.buf ELSE <<>>]

\* <LocalTransport as Clone>::clone: the buffer of the new transport
clone(buf) == <<>>

NothingReturned == [op |-> "none"]

\* ------------------------------------------------------------ copy_tree.rs
\* the index of the first '/' of s at or after i, 0 if there is none
RECURSIVE FindSlash(_, _)
FindSlash(s, i) ==
    IF i > Len(s) THEN 0
    ELSE IF SubSeq(s, i, i) = "/" THEN i ELSE FindSlash(s, i + 1)

\* str::split('/'): the pieces between the slashes, empty pieces included;
\* a string without a slash, the empty string too, is its own single piece
RECURSIVE split(_)
split(s) ==
    LET k == FindSlash(s, 1)
    IN  IF k = 0 THEN <<s>>
        ELSE <<SubSeq(s, 1, k - 1)>> \o split(SubSeq(s, k + 1, Len(s)))

\* the comparison entered for every entry
long_enough_always(subtree, target_tree) == TRUE

\* subtree.len() >= target_tree.len()
long_enough(subtree, target_tree) == Len(subtree) >= Len(target_tree)

\* the selection of an entry: to_be_copied as the loop body leaves it, or
\* the panic of an index past the end of subtree
to_be_copied(target, entry_apath) ==
    LET target_tree == split(target)
        subtree == split(entry_apath)
    IN  IF target = "" THEN [outcome |-> "ok", to_be_copied |-> TRUE]
        ELSE IF long_enough(subtree, target_tree)
        THEN IF \E i \in 1..Len(target_tree) : i > Len(subtree)
             THEN [outcome |-> "panic", to_be_copied |-> FALSE]
             ELSE LET matched == Cardinality({i \in 1..Len(target_tree) :
                                                target_tree[i] = subtree[i]})
                  IN  [outcome |-> "ok", to_be_copied |-> matched = Len(target_tree)]
        ELSE [outcome |-> "ok", to_be_copied |-> FALSE]

\* CopyStats::default(), the fields copy_tree itself counts in
CopyStatsDefault ==
    [directories |-> 0, files |-> 0, symlinks |-> 0, unknown_kind |-> 0, errors |-> 0]

\* the counter of stats that the match on entry.kind() increments
KindCounter(kind) ==
    IF kind = "Dir" THEN "directories"
    ELSE IF kind = "File" THEN "files"
    ELSE IF kind = "Symlink" THEN "symlinks" ELSE "unknown_kind"

NotCopying == [phase |-> "none"]

\* -------------------------------------------------------------------- Init
NoError == [kind |-> "none"]

ZeroSizes == [uncompressed |-> 0, compressed |-> 0]

NoReadBack == [n |-> 0, bytes |-> <<>>, ok |-> TRUE]

Init ==
    /\ dirs = {}
    /\ files = <<>>
    /\ pc = [w \in Writers |-> "idle"]
    /\ source = [w \in Writers |-> <<>>]
    /\ from_file = [w \in Writers |-> <<>>]
    /\ reads = [w \in Writers |-> <<>>]
    /\ input_buf = [w \in Writers |-> Repeat(0, MAX_BLOCK_SIZE)]
    /\ read_len = [w \in Writers |-> 0]
    /\ block_hash = [w \in Writers |-> ""]
    /\ addresses = [w \in Writers |-> <<>>]
    /\ sizes = [w \in Writers |-> ZeroSizes]
    /\ report = [w \in Writers |-> NewReport]
    /\ calls = [w \in Writers |-> 0]
    /\ results = [w \in Writers |-> <<>>]
    /\ back = [w \in Writers |-> NoReadBack]
    /\ names = NotListed
    /\ nested = {}
    /\ unreadable = {}
    /\ validation = NotValidated
    /\ got = NotGot
    /\ failure = [w \in Writers |-> NoError]
    /\ count = <<>>
    /\ rejected = {}
    /\ passed = <<>>
    /\ merged = NotMerged
    /\ read_buf = <<>>
    /\ returned = NothingReturned
    /\ copying = NotCopying

\* ------------------------------------------------------ store_file_content
\* A caller hands handle w the stream s: the locals of the call are set up.
StartStore(w, s, max_calls) ==
    /\ pc[w] \in {"idle", "done"}
    /\ calls[w] < max_calls
    /\ pc' = [pc EXCEPT ![w] = "read"]
    /\ calls' = [calls EXCEPT ![w] = @ + 1]
    /\ source' = [source EXCEPT ![w] = s]
    /\ from_file' = [from_file EXCEPT ![w] = s]
    /\ reads' = [reads EXCEPT ![w] = <<>>]
    /\ addresses' = [addresses EXCEPT ![w] = <<>>]
    /\ sizes' = [sizes EXCEPT ![w] = ZeroSizes]
    /\ back' = [back EXCEPT ![w] = NoReadBack]
    /\ Unobserved
    /\ UNCHANGED outsideVars
    /\ UNCHANGED <<fsVars, windowVars, report, results>>

\* input_buf after a read of n bytes: the first n bytes are overwritten, the
\* rest of the buffer keeps what it held
FillBuf(buf, data) == data \o SubSeq(buf, Len(data) + 1, Len(buf))

\* from_file.read(&mut self.input_buf) returns n > 0 bytes, at most a window
\* and possibly fewer than are left; the window is hashed.
ReadWindow(w) ==
    /\ pc[w] = "read"
    /\ from_file[w] # <<>>
    /\ \E n \in 1..Min(MAX_BLOCK_SIZE, Len(from_file[w])) :
          LET data == SubSeq(from_file[w], 1, n)
              buf == FillBuf(input_buf[w], data)
          IN  /\ input_buf' = [input_buf EXCEPT ![w] = buf]
              /\ read_len' = [read_len EXCEPT ![w] = n]
              /\ block_hash' = [block_hash EXCEPT ![w] = hash_bytes(BlockSlice(buf, n))]
              /\ from_file' = [from_file EXCEPT ![w] = SubSeq(@, n + 1, Len(@))]
              /\ reads' = [reads EXCEPT ![w] = Append(@, n)]
    /\ pc' = [pc EXCEPT ![w] = "contains"]
    /\ Unobserved
    /\ UNCHANGED outsideVars
    /\ UNCHANGED <<fsVars, source, addresses, sizes, report, callerVars>>

\* a classification that knows no large files
FileClassNoLarge(n) == IF n = 0 THEN "file.empty" ELSE "file.medium"

\* the counter that classifies a file by its number of addresses
FileClass(n) == IF n = 0 THEN "file.empty" ELSE IF n = 1 THEN "file.medium" ELSE "file.large"

\* read returns 0: the loop ends, the file is classified, the call returns
ReadEof(w) ==
    /\ pc[w] = "read"
    /\ from_file[w] = <<>>
    /\ LET rep == Increment(report[w], FileClass(Len(addresses[w])), 1)
       IN  /\ report' = [report EXCEPT ![w] = rep]
           /\ results' = [results EXCEPT ![w] =
                  Append(@, [source |-> source[w], reads |-> reads[w],
                             addresses |-> addresses[w],
                             sizes |-> sizes[w], report |-> rep])]
    /\ pc' = [pc EXCEPT ![w] = "done"]
    /\ Unobserved
    /\ UNCHANGED outsideVars
    /\ UNCHANGED <<fsVars, windowVars, source, from_file, reads, addresses, sizes, calls, back>>

\* the address given the length of the buffer instead of the length read
PushAddressBufLen(addrs, hash, len) ==
    Append(addrs, [hash |-> hash, start |-> 0, len |-> MAX_BLOCK_SIZE])

\* the address put in front of the list instead of at its end
PushAddressFront(addrs, hash, len) ==
    <<[hash |-> hash, start |-> 0, len |-> len]>> \o addrs

\* addresses.push(Address { hash, start: 0, len: read_len }); the loop goes on
PushAddress(addrs, hash, len) == Append(addrs, [hash |-> hash, start |-> 0, len |-> len])

\* the already-present branch without its address
ContainsHitNoPush(w) ==
    /\ pc[w] = "contains"
    /\ contains(block_hash[w])
    /\ report' = [report EXCEPT ![w] = Increment(@, "block.already_present", 1)]
    /\ sizes' = [sizes EXCEPT ![w].uncompressed = @ + read_len[w]]
    /\ read_len' = [read_len EXCEPT ![w] = 0]
    /\ block_hash' = [block_hash EXCEPT ![w] = ""]
    /\ pc' = [pc EXCEPT ![w] = "read"]
    /\ Unobserved
    /\ UNCHANGED outsideVars
    /\ UNCHANGED <<fsVars, input_buf, source, from_file, reads, addresses, callerVars>>

\* contains() is true: the window is counted as already present and not written
ContainsHit(w) ==
    /\ pc[w] = "contains"
    /\ contains(block_hash[w])
    /\ report' = [report EXCEPT ![w] = Increment(@, "block.already_present", 1)]
    /\ sizes' = [sizes EXCEPT ![w].uncompressed = @ + read_len[w]]
    /\ addresses' = [addresses EXCEPT ![w] = PushAddress(@, block_hash[w], read_len[w])]
    /\ read_len' = [read_len EXCEPT ![w] = 0]
    /\ block_hash' = [block_hash EXCEPT ![w] = ""]
    /\ pc' = [pc EXCEPT ![w] = "read"]
    /\ Unobserved
    /\ UNCHANGED outsideVars
    /\ UNCHANGED <<fsVars, input_buf, source, from_file, reads, callerVars>>

\* contains() is false: compress_and_store is entered
ContainsMiss(w) ==
    /\ pc[w] = "contains"
    /\ ~contains(block_hash[w])
    /\ pc' = [pc EXCEPT ![w] = "ensure_dir"]
    /\ Unobserved
    /\ UNCHANGED outsideVars
    /\ UNCHANGED <<fsVars, windowVars, callVars, callerVars>>


\* ------------------------------------------------------ compress_and_store
\* ensure_dir_exists(&d): the subdirectory exists afterwards, whoever made it
EnsureDir(w) ==
    /\ pc[w] = "ensure_dir"
    /\ dirs' = dirs \cup {subdir_for(block_hash[w])}
    /\ pc' = [pc EXCEPT ![w] = "tempfile"]
    /\ Unobserved
    /\ UNCHANGED outsideVars
    /\ UNCHANGED <<files, windowVars, callVars, callerVars>>

\* tempfile_in(&d): a new, empty file under a tmp name
CreateTemp(w) ==
    /\ pc[w] = "tempfile"
    /\ files' = CreateFile(files, TmpPath(w),
                           [data |-> <<>>,
                            ino |-> <<w, calls[w], Len(addresses[w]) + 1>>])
    /\ pc' = [pc EXCEPT ![w] = "write"]
    /\ Unobserved
    /\ UNCHANGED outsideVars
    /\ UNCHANGED <<dirs, windowVars, callVars, callerVars>>

\* compress_and_store going on to persist after its first write
AfterWriteEarly(written, full) == "persist"

\* the position compress_and_store is at after a write that left the
\* temporary file holding `written` of the `full` compressed bytes
AfterWrite(written, full) == IF written = full THEN "persist" ELSE "write"

\* Snappy::compress_and_write: the compressed bytes reach the temporary file
\* in one write or in several
WriteTemp(w) ==
    /\ pc[w] = "write"
    /\ LET full == SnappyCompress(block_data(w))
           cur == files[TmpPath(w)].data
       IN  \E k \in {1, Len(full) - Len(cur)} :
              LET written == SubSeq(full, 1, Len(cur) + k)
              IN  /\ files' = [files EXCEPT ![TmpPath(w)].data = written]
                  /\ pc' = [pc EXCEPT ![w] = AfterWrite(written, full)]
    /\ Unobserved
    /\ UNCHANGED outsideVars
    /\ UNCHANGED <<dirs, windowVars, callVars, callerVars>>

\* compress_and_store returned Ok(comp_len): block.write is incremented, the
\* sizes grow, the address is pushed, the loop goes on
WindowStored(w, comp_len, rep) ==
    /\ report' = [report EXCEPT ![w] = Increment(rep, "block.write", 1)]
    /\ sizes' = [sizes EXCEPT ![w] =
                    [compressed |-> @.compressed + comp_len,
                     uncompressed |-> @.uncompressed + read_len[w]]]
    /\ addresses' = [addresses EXCEPT ![w] = PushAddress(@, block_hash[w], read_len[w])]
    /\ read_len' = [read_len EXCEPT ![w] = 0]
    /\ block_hash' = [block_hash EXCEPT ![w] = ""]
    /\ pc' = [pc EXCEPT ![w] = "read"]

\* tempf.persist(&path) succeeds: the temporary file now is the block file
PersistOk(w) ==
    /\ pc[w] = "persist"
    /\ LET path == path_for_file(block_hash[w])
       IN  /\ PersistOutcomes(path \in DOMAIN files) \cap {"created", "replaced"} # {}
           /\ files' = Rename(files, TmpPath(w), path)
           /\ WindowStored(w, Len(files[TmpPath(w)].data), report[w])
    /\ Unobserved
    /\ UNCHANGED outsideVars
    /\ UNCHANGED <<dirs, input_buf, source, from_file, reads, callerVars>>

\* tempf.persist(&path) fails with AlreadyExists: block.already_present is
\* incremented, the temporary file is still to be closed
PersistAlreadyExists(w) ==
    /\ pc[w] = "persist"
    /\ "AlreadyExists" \in PersistOutcomes(path_for_file(block_hash[w]) \in DOMAIN files)
    /\ report' = [report EXCEPT ![w] = Increment(@, "block.already_present", 1)]
    /\ pc' = [pc EXCEPT ![w] = "close"]
    /\ Unobserved
    /\ UNCHANGED outsideVars
    /\ UNCHANGED <<fsVars, windowVars, source, from_file, reads, addresses, sizes, callerVars>>

\* e.file.close() removes the temporary file; compress_and_store returns
\* Ok(comp_len)
CloseTemp(w) ==
    /\ pc[w] = "close"
    /\ files' = RemoveFile(files, TmpPath(w))
    /\ WindowStored(w, Len(files[TmpPath(w)].data), report[w])
    /\ Unobserved
    /\ UNCHANGED outsideVars
    /\ UNCHANGED <<dirs, input_buf, source, from_file, reads, callerVars>>

\* compress_and_store returns an error: the NamedTempFile it still owns is
\* dropped, which removes the temporary file; store_file_content returns the
\* StoreBlock error with the hash of the window
PutFailed(w) ==
    /\ files' = RemoveFile(files, TmpPath(w))
    /\ pc' = [pc EXCEPT ![w] = "failed"]
    /\ failure' = [failure EXCEPT ![w] =
                      [kind |-> "StoreBlock", block_hash |-> block_hash[w]]]
    /\ Unobserved
    /\ UNCHANGED <<dirs, windowVars, callVars, callerVars,
                   nested, unreadable, besideVars>>

\* Snappy::compress_and_write(&in_buf, &mut tempf)? fails, before or after
\* some of the bytes were written
WriteTempError(w) ==
    /\ pc[w] = "write"
    /\ PutFailed(w)

\* tempf.persist(&path) fails with an error other than AlreadyExists:
\* return Err(e.error) drops e.file
PersistError(w) ==
    /\ pc[w] = "persist"
    /\ PutFailed(w)

\* ------------------------------------------------------------- the callers
\* The caller of a finished call reads back the next address with get().
GetAddress(w) ==
    /\ pc[w] = "done"
    /\ back[w].ok
    /\ back[w].n < Len(addresses[w])
    /\ LET r == get(addresses[w][back[w].n + 1])
       IN  back' = [back EXCEPT ![w] =
                       [n |-> @.n + 1, bytes |-> @.bytes \o r.bytes,
                        ok |-> r.outcome = "ok"]]
    /\ Unobserved
    /\ UNCHANGED outsideVars
    /\ UNCHANGED <<fsVars, pc, windowVars, callVars, calls, results>>

\* Some handle enumerates the block directory.
ListBlockNames ==
    /\ \E seq \in (IF list_outcome = "ok" THEN block_names ELSE {<<>>}) :
          names' = [listed |-> list_outcome = "ok", seq |-> seq,
                    outcome |-> list_outcome]
    /\ validation' = NotValidated
    /\ got' = NotGot
    /\ UNCHANGED <<fsVars, pc, windowVars, callVars, callerVars, outsideVars>>

\* Some handle validates the block directory.
Validate ==
    /\ \E v \in validate : validation' = v
    /\ names' = NotListed
    /\ got' = NotGot
    /\ UNCHANGED <<fsVars, pc, windowVars, callVars, callerVars, outsideVars>>

\* the addresses a caller makes up: of a block in the directory or of none,
\* from its start or not, of any length up to a window
MadeUpAddresses ==
    {[hash |-> h, start |-> st, len |-> l] :
        h \in {p[2] : p \in {q \in DOMAIN files : IsBlockEntry(q[2])}}
               \cup {hash_bytes(<<>>)},
        st \in {0, 1},
        l \in 0..MAX_BLOCK_SIZE}

\* A caller calls get() with an address it made up.
GetMadeUp ==
    /\ \E addr \in MadeUpAddresses :
          got' = [tried |-> TRUE, addr |-> addr, outcome |-> get(addr).outcome,
                  bytes |-> get(addr).bytes]
    /\ names' = NotListed
    /\ validation' = NotValidated
    /\ UNCHANGED <<fsVars, pc, windowVars, callVars, callerVars, outsideVars>>

\* from_file.read fails: store_file_content returns the StoreFile error with
\* the apath of the call; its address list and sizes are dropped
apath(w) == <<"/file", w, calls[w]>>

\* the failing call classifying the file before it returns the error
ReadErrorClassified(w) ==
    /\ pc[w] = "read"
    /\ pc' = [pc EXCEPT ![w] = "failed"]
    /\ failure' = [failure EXCEPT ![w] = [kind |-> "StoreFile", apath |-> apath(w)]]
    /\ report' = [report EXCEPT ![w] = Increment(@, FileClass(Len(addresses[w])), 1)]
    /\ Unobserved
    /\ UNCHANGED <<fsVars, windowVars, source, from_file, reads, addresses, sizes,
                   callerVars, nested, unreadable, besideVars>>

ReadError(w) ==
    /\ pc[w] = "read"
    /\ pc' = [pc EXCEPT ![w] = "failed"]
    /\ failure' = [failure EXCEPT ![w] = [kind |-> "StoreFile", apath |-> apath(w)]]
    /\ Unobserved
    /\ UNCHANGED <<fsVars, windowVars, callVars, callerVars,
                   nested, unreadable, besideVars>>

\* ----------------------------------------------------- callers of report.rs
\* the largest value the callers drive a counter to
MaxCount == 2

\* the names blockdir.rs passes to report.increment
CoreCounterNames ==
    {"block.already_present", "block.write", FileClass(0), FileClass(1), FileClass(2)}

\* the names the tests of report.rs pass
TestCounterNames == {"block.read.count", "block.read.corrupt", "block.write.count"}

\* let r = Report::new()
Report_new(i) ==
    /\ i \notin DOMAIN count
    /\ count' = [j \in DOMAIN count \cup {i} |-> IF j = i THEN ReportNew ELSE count[j]]
    /\ passed' = [j \in DOMAIN count \cup {i} |->
                    IF j = i THEN [n \in KnownNames |-> 0] ELSE passed[j]]
    /\ merged' = NotMerged
    /\ UNCHANGED <<blockdirVars, rejected, transportVars, copying>>

\* r.increment(counter_name, delta)
Report_increment(i, counter_name, delta) ==
    /\ i \in DOMAIN count
    /\ LET r == increment(count[i], counter_name, delta)
       IN  /\ get_count(r.count, counter_name) <= MaxCount
           /\ count' = [count EXCEPT ![i] = r.count]
           /\ rejected' = IF r.outcome = "panic"
                          THEN rejected \cup {counter_name}
                          ELSE rejected
    /\ passed' = IF counter_name \in KnownNames
                 THEN [passed EXCEPT ![i][counter_name] = @ + delta]
                 ELSE passed
    /\ merged' = NotMerged
    /\ UNCHANGED <<blockdirVars, transportVars, copying>>

\* r1.merge_from(&r2): r1 is borrowed mutably, so r2 is another Report
Report_merge_from(i, j) ==
    /\ i \in DOMAIN count
    /\ j \in DOMAIN count
    /\ i # j
    /\ LET r == merge_from(count[i], count[j])
       IN  /\ \A n \in DOMAIN r.count : r.count[n] <= MaxCount
           /\ count' = [count EXCEPT ![i] = r.count]
    /\ passed' = [passed EXCEPT ![i] = [n \in KnownNames |-> @[n] + count[j][n]]]
    /\ merged' = [done |-> TRUE, self |-> i, from_report |-> j, before |-> count]
    /\ UNCHANGED <<blockdirVars, rejected, transportVars, copying>>

\* ------------------------------------------------------- the surroundings
\* What is done to the directory from outside the block directory's code.
MaxFaults == 2

\* a file the surroundings made has no handle's number on it
OutsideIno == <<0, 0, 0>>

OutsideFiles == {p \in DOMAIN files : files[p].ino = OutsideIno}

Faults == Cardinality(OutsideFiles) + Cardinality(nested) + Cardinality(unreadable)

\* a block name no stream of the handles hashes to
OtherHash == hash_bytes(<<66>>)

\* files that are no blocks: a short tmp name, a tmp name as long as a block
\* name, a block name in a subdirectory of four characters
ForeignFiles ==
    {<<"000", "tmpXYZ">>,
     <<"010", TMP_PREFIX \o SubSeq(OtherHash, 4, BLOCKDIR_FILE_NAME_LEN)>>,
     <<"0000", OtherHash>>}

\* a directory under a block name
ForeignDirs == {path_for_file(OtherHash)}

PlantFile(p) ==
    /\ Faults < MaxFaults
    /\ p \notin DOMAIN files \cup nested
    /\ files' = CreateFile(files, p, [data |-> <<0>>, ino |-> OutsideIno])
    /\ dirs' = dirs \cup {p[1]}
    /\ Unobserved
    /\ UNCHANGED <<pc, windowVars, callVars, callerVars,
                   nested, unreadable, failure, besideVars>>

PlantDir(p) ==
    /\ Faults < MaxFaults
    /\ p \notin DOMAIN files \cup nested
    /\ nested' = nested \cup {p}
    /\ dirs' = dirs \cup {p[1]}
    /\ Unobserved
    /\ UNCHANGED <<files, pc, windowVars, callVars, callerVars,
                   unreadable, failure, besideVars>>

\* the last byte of a block file cut off, or flipped between '@' and 'A'
Tampered(data, how) ==
    IF how = "truncate" THEN SubSeq(data, 1, Len(data) - 1)
    ELSE [data EXCEPT ![Len(data)] = IF @ = 64 THEN 65 ELSE 64]

Tamper(p, how) ==
    /\ Faults < MaxFaults
    /\ p \in DOMAIN files
    /\ IsBlockEntry(p[2])
    /\ files[p].ino # OutsideIno
    /\ files' = [files EXCEPT ![p] = [data |-> Tampered(@.data, how), ino |-> OutsideIno]]
    /\ Unobserved
    /\ UNCHANGED <<dirs, pc, windowVars, callVars, callerVars, outsideVars>>

\* a directory loses its read permission: it can be searched, not listed
MakeUnreadable(d) ==
    /\ Faults < MaxFaults
    /\ d \in (dirs \cup {Root}) \ unreadable
    /\ unreadable' = unreadable \cup {d}
    /\ Unobserved
    /\ UNCHANGED <<fsVars, pc, windowVars, callVars, callerVars,
                   nested, failure, besideVars>>

\* --------------------------------------------- callers of transport/local.rs
\* the LocalTransports the callers hold
Transports == {1, 2, 3}

\* let transport = LocalTransport::new(path)
LocalTransport_new(t) ==
    /\ t \notin DOMAIN read_buf
    /\ read_buf' = [u \in DOMAIN read_buf \cup {t} |->
                      IF u = t THEN <<>> ELSE read_buf[u]]
    /\ returned' = [op |-> "new", transport |-> t]
    /\ UNCHANGED <<blockdirVars, reportVars, copying>>

\* transport.read_file(relpath)
LocalTransport_read_file(t, relpath, delivered) ==
    /\ t \in DOMAIN read_buf
    /\ delivered \in Deliveries(relpath)
    /\ LET r == read_file(read_buf[t], relpath, delivered)
       IN  /\ read_buf' = [read_buf EXCEPT ![t] = r.read_buf]
           /\ returned' = [op |-> "read_file", transport |-> t, relpath |-> relpath,
                           before |-> read_buf[t],
                           outcome |-> r.outcome, bytes |-> r.bytes]
    /\ UNCHANGED <<blockdirVars, reportVars, copying>>

\* let u = t.clone(), or t.box_clone()
LocalTransport_clone(t, u) ==
    /\ t \in DOMAIN read_buf
    /\ u \notin DOMAIN read_buf
    /\ read_buf' = [v \in DOMAIN read_buf \cup {u} |->
                      IF v = u THEN clone(read_buf[t]) ELSE read_buf[v]]
    /\ returned' = [op |-> "clone", transport |-> u, of |-> t]
    /\ UNCHANGED <<blockdirVars, reportVars, copying>>

\* ----------------------------------------------------- callers of copy_tree
\* the entries source.iter_entries() yields, in apath order
SourceTree ==
    <<[apath |-> "/", kind |-> "Dir"],
      [apath |-> "/a", kind |-> "Dir"],
      [apath |-> "/a/b", kind |-> "Dir"],
      [apath |-> "/a/b/c", kind |-> "File"],
      [apath |-> "/a/s", kind |-> "Unknown"],
      [apath |-> "/ab", kind |-> "Symlink"],
      [apath |-> "/b", kind |-> "File"]>>

\* the values of options.only_subtree
Subtrees == {"", "/", "/a", "/a/b", "/a/b/", "a", "/a/b/c/d"}

\* copy_tree(source, dest, options) up to its loop
copy_tree_start(only_subtree) ==
    /\ copying.phase = "none"
    /\ copying' = [phase |-> "iter", only_subtree |-> only_subtree, next |-> 1,
                   handed |-> <<>>, stats |-> CopyStatsDefault]
    /\ UNCHANGED <<blockdirVars, reportVars, transportVars>>

\* one pass of the loop: the entry is selected or not; a selected entry is
\* counted by its kind and, unless its kind is Unknown, handed to
\* dest.copy_dir, copy_file or copy_symlink, whose error is counted
copy_tree_entry(dest_result) ==
    /\ copying.phase = "iter"
    /\ copying.next <= Len(SourceTree)
    /\ LET entry == SourceTree[copying.next]
           sel == to_be_copied(copying.only_subtree, entry.apath)
       IN  IF sel.outcome = "panic"
           THEN /\ dest_result = "ok"
                /\ copying' = [copying EXCEPT !.phase = "panic"]
           ELSE IF ~sel.to_be_copied
           THEN /\ dest_result = "ok"
                /\ copying' = [copying EXCEPT !.next = @ + 1]
           ELSE IF entry.kind = "Unknown"
           THEN /\ dest_result = "ok"
                /\ copying' = [copying EXCEPT !.next = @ + 1,
                                              !.stats.unknown_kind = @ + 1]
           ELSE copying' =
                  [copying EXCEPT
                     !.next = @ + 1,
                     !.handed = Append(@, [apath |-> entry.apath,
                                           result |-> dest_result]),
                     !.stats = [@ EXCEPT
                        ![KindCounter(entry.kind)] = @ + 1,
                        !.errors = IF dest_result = "Err" THEN @ + 1 ELSE @]]
    /\ UNCHANGED <<blockdirVars, reportVars, transportVars>>

\* the loop is over: dest.finish(), Ok(stats)
copy_tree_finish ==
    /\ copying.phase = "iter"
    /\ copying.next > Len(SourceTree)
    /\ copying' = [copying EXCEPT !.phase = "done"]
    /\ UNCHANGED <<blockdirVars, reportVars, transportVars>>

\* ---------------------------------------------------------- specifications
\* Every handle makes one call, on any stream of Streams, in any interleaving;
\* a put can fail while it writes or renames its temporary file; the
\* directory is listed and validated at any time.
Next ==
    \/ \E w \in Writers :
          \/ \E s \in Streams : StartStore(w, s, 1)
          \/ ReadWindow(w)
          \/ ReadEof(w)
          \/ ContainsHit(w)
          \/ ContainsMiss(w)
          \/ EnsureDir(w)
          \/ CreateTemp(w)
          \/ WriteTemp(w)
          \/ PersistOk(w)
          \/ PersistAlreadyExists(w)
          \/ CloseTemp(w)
          \/ WriteTempError(w)
          \/ PersistError(w)
          \/ GetAddress(w)
    \/ ListBlockNames
    \/ Validate

Spec == Init /\ [][Next]_vars

\* One handle alone makes up to MaxCalls calls, one after the other, on
\* streams of up to MaxChunks windows.  No other handle runs, so persist never
\* finds its target.
NextSeq ==
    \/ \E s \in SeqStreams : StartStore(1, s, MaxCalls)
    \/ ReadWindow(1)
    \/ ReadEof(1)
    \/ ContainsHit(1)
    \/ ContainsMiss(1)
    \/ EnsureDir(1)
    \/ CreateTemp(1)
    \/ WriteTemp(1)
    \/ PersistOk(1)
    \/ GetAddress(1)

SpecSeq == Init /\ [][NextSeq]_vars

\* One handle makes one call, which its reader may fail, while the
\* surroundings put up to MaxFaults foreign entries, tampered blocks and
\* unreadable directories in the block directory; the directory is listed,
\* validated and read with made-up addresses at any time.
NextFaults ==
    \/ \E s \in Streams : StartStore(1, s, 1)
    \/ ReadWindow(1)
    \/ ReadEof(1)
    \/ ReadError(1)
    \/ ContainsHit(1)
    \/ ContainsMiss(1)
    \/ EnsureDir(1)
    \/ CreateTemp(1)
    \/ WriteTemp(1)
    \/ PersistOk(1)
    \/ \E p \in ForeignFiles : PlantFile(p)
    \/ \E p \in ForeignDirs : PlantDir(p)
    \/ \E p \in DOMAIN files, how \in {"truncate", "flip"} : Tamper(p, how)
    \/ \E d \in dirs \cup {Root} : MakeUnreadable(d)
    \/ ListBlockNames
    \/ Validate
    \/ GetMadeUp

SpecFaults == Init /\ [][NextFaults]_vars

\* The callers of report.rs make Reports and increment counters by the names
\* blockdir.rs uses and by the names the tests of report.rs use.
NextReport ==
    \E i \in Reports :
        \/ Report_new(i)
        \/ \E j \in Reports : Report_merge_from(i, j)
        \/ \E counter_name \in CoreCounterNames \cup TestCounterNames,
              delta \in 1..MaxCount :
                Report_increment(i, counter_name, delta)

SpecReport == Init /\ [][NextReport]_vars

\* The callers of transport/local.rs make LocalTransports, clone them and
\* read files through them; a read may fail after any number of bytes.
NextTransport ==
    \E t \in Transports :
        \/ LocalTransport_new(t)
        \/ \E u \in Transports : LocalTransport_clone(t, u)
        \/ \E relpath \in Relpaths :
              \E delivered \in Deliveries(relpath) :
                  LocalTransport_read_file(t, relpath, delivered)

SpecTransport == Init /\ [][NextTransport]_vars

\* copy_tree is called once, with any of the values of only_subtree, on the
\* source tree; any copy of an entry may fail in the destination.
NextCopy ==
    \/ \E only_subtree \in Subtrees : copy_tree_start(only_subtree)
    \/ \E dest_result \in {"ok", "Err"} : copy_tree_entry(dest_result)
    \/ copy_tree_finish

SpecCopy == Init /\ [][NextCopy]_vars


\* ================================================================== claims
AllDone == \A w \in Writers : pc[w] = "done"

Quiescent == \A w \in Writers : pc[w] \in {"idle", "done"}

BlockPaths == {p \in DOMAIN files : IsBlockEntry(p[2])}

\* the bytes of the i-th window of a call that read src in windows of the
\* lengths lens
RECURSIVE Offset(_, _)
Offset(lens, i) == IF i <= 1 THEN 0 ELSE lens[i - 1] + Offset(lens, i - 1)

Window(src, lens, i) == SubSeq(src, Offset(lens, i) + 1, Offset(lens, i) + lens[i])

Written(w) == report[w]["block.write"]

AlreadyPresent(w) == report[w]["block.already_present"]

\* C1: when all N handles have stored the same one-window stream into the
\* initially empty directory, exactly one of them has incremented block.write
\* (once) and each of the others has incremented block.already_present (once)
\* and not block.write.
C1_ExactlyOneWrites ==
    (/\ AllDone
     /\ \A w \in Writers : source[w] = source[1] /\ reads[w] = <<Len(source[1])>>)
    => \E winner \in Writers :
          /\ Written(winner) = 1
          /\ \A w \in Writers \ {winner} : AlreadyPresent(w) = 1 /\ Written(w) = 0

\* C2: a step never replaces or removes a file that exists under a block name
\* (of several writers of one hash only the first rename publishes).
C2_NeverReplaces ==
    [][\A p \in BlockPaths : p \in DOMAIN files' /\ files'[p] = files[p]]_vars

\* C3: once every handle has finished, each hash a handle was given an address
\* for names exactly one file in the whole directory, that file holds what a
\* single writer of the window produces, and every handle reading the address
\* gets the bytes of the window (the same for all handles).
C3_OneBlockSameBytes ==
    AllDone =>
        \A w \in Writers : \A i \in 1..Len(addresses[w]) :
            LET a == addresses[w][i]
                chunk == Window(source[w], reads[w], i)
            IN  /\ Cardinality({p \in DOMAIN files : p[2] = a.hash}) = 1
                /\ path_for_file(a.hash) \in DOMAIN files
                /\ files[path_for_file(a.hash)].data = SnappyCompress(chunk)
                /\ get(a).outcome = "ok"
                /\ get(a).bytes = chunk
                /\ (back[w].n >= i => back[w].ok /\ IsPrefix(back[w].bytes, source[w]))

\* two handles raced on the same stream, both renamed, and both read it back
C3_Witness ==
    /\ AllDone
    /\ source[1] = source[2]
    /\ source[1] # <<>>
    /\ Written(1) >= 1 /\ Written(2) >= 1
    /\ \A w \in Writers : back[w].n = Len(addresses[w])

\* C4: in every state, every file under a final (128-character, not tmp) name
\* is the complete compressed form of a chunk whose digest is that name.
C4_FinalNamesComplete ==
    \A p \in BlockPaths :
        LET d == SnappyDecompress(files[p].data)
        IN  /\ d.ok
            /\ d.bytes # <<>>
            /\ SnappyCompress(d.bytes) = files[p].data
            /\ hash_bytes(d.bytes) = p[2]
            /\ p[1] = block_name_to_subdirectory(p[2])

\* a block is published while another handle's temporary file is part-written
C4_Witness ==
    /\ BlockPaths # {}
    /\ \E w \in Writers :
          /\ pc[w] = "write"
          /\ files[TmpPath(w)].data # <<>>
          /\ ~SnappyDecompress(files[TmpPath(w)].data).ok

\* C5: a file published under a block name stays there, and what decompresses
\* from it is the same after every step.
C5_PublishedImmutable ==
    [][\A p \in BlockPaths :
          /\ p \in DOMAIN files'
          /\ SnappyDecompress(files'[p].data) = SnappyDecompress(files[p].data)]_vars

\* a handle published a block with its rename and the file now under that name
\* is one another handle renamed there later
C5_Witness ==
    \E w \in Writers :
        /\ Len(addresses[w]) = 1
        /\ Written(w) = 1 /\ AlreadyPresent(w) = 0
        /\ path_for_file(addresses[w][1].hash) \in DOMAIN files
        /\ files[path_for_file(addresses[w][1].hash)].ino[1] # w


\* what call i of handle w added to a counter
Inc(w, i, counter_name) ==
    results[w][i].report[counter_name]
    - (IF i = 1 THEN 0 ELSE results[w][i - 1].report[counter_name])

Hashes(addrs) == {addrs[j].hash : j \in 1..Len(addrs)}

\* what must hold of call i of handle w when it stored the stream of call i-1 again
SecondStoreDedups(w, i) ==
    LET r1 == results[w][i - 1]
        r2 == results[w][i]
    IN  /\ r2.addresses = r1.addresses
        /\ Inc(w, i, "block.already_present") = Len(r2.addresses)
        /\ Inc(w, i, "block.write") = 0
        /\ r2.sizes.compressed = 0
        /\ r2.sizes.uncompressed = r1.sizes.uncompressed
        /\ \A h \in Hashes(r2.addresses) :
              /\ path_for_file(h) \in DOMAIN files
              /\ files[path_for_file(h)].ino[2] < i

C7_RoundTrip ==
    \A w \in Writers :
        pc[w] = "done" =>
            /\ back[w].ok
            /\ IsPrefix(back[w].bytes, source[w])
            /\ (back[w].n = Len(addresses[w]) => back[w].bytes = source[w])

\* a stream stored in two windows has been read back whole
C7_Witness ==
    \E w \in Writers :
        /\ pc[w] = "done"
        /\ Len(addresses[w]) = 2
        /\ back[w].n = 2
        /\ addresses[w][1].hash # addresses[w][2].hash

\* C8 as stated: a stream of L <= MAX_BLOCK_SIZE bytes gets exactly one
\* address, with start = 0 and len = L.
C8_OneAddress ==
    \A w \in Writers : \A i \in 1..Len(results[w]) :
        LET r == results[w][i]
        IN  Len(r.source) <= MAX_BLOCK_SIZE =>
                /\ Len(r.addresses) = 1
                /\ r.addresses[1].start = 0
                /\ r.addresses[1].len = Len(r.source)

\* C8 amended: a stream of 1 <= L <= MAX_BLOCK_SIZE bytes that the reader
\* delivers in one read gets exactly one address, with start = 0 and len = L;
\* the empty stream gets no address.
C8_OneAddressPerSingleRead ==
    \A w \in Writers : \A i \in 1..Len(results[w]) :
        LET r == results[w][i]
        IN  /\ r.source = <<>> => r.addresses = <<>>
            /\ (r.source # <<>> /\ r.reads = <<Len(r.source)>>) =>
                   /\ Len(r.source) <= MAX_BLOCK_SIZE
                   /\ Len(r.addresses) = 1
                   /\ r.addresses[1].start = 0
                   /\ r.addresses[1].len = Len(r.source)

\* a stream shorter than the window was stored from a single read
C8_Witness ==
    \E i \in 1..Len(results[1]) :
        /\ Len(results[1][i].source) \in 1..(MAX_BLOCK_SIZE - 1)
        /\ results[1][i].reads = <<Len(results[1][i].source)>>

\* the first call of handle w stored k >= 1 windows' worth of one byte
IsRepeatedByte(w) ==
    /\ results[w] # <<>>
    /\ results[w][1].source # <<>>
    /\ Len(results[w][1].source) % MAX_BLOCK_SIZE = 0
    /\ \A j \in 1..Len(results[w][1].source) :
          results[w][1].source[j] = results[w][1].source[1]

\* what C9 says of such a call: k addresses of one hash and of len
\* MAX_BLOCK_SIZE, block.write incremented once, block.already_present k-1 times
OneWriteRestPresent(w) ==
    LET r == results[w][1]
        k == Len(r.source) \div MAX_BLOCK_SIZE
    IN  /\ Len(r.addresses) = k
        /\ \A j \in 1..Len(r.addresses) :
              /\ r.addresses[j].hash = r.addresses[1].hash
              /\ r.addresses[j].len = MAX_BLOCK_SIZE
        /\ Inc(w, 1, "block.write") = 1
        /\ Inc(w, 1, "block.already_present") = k - 1

StoredHashes ==
    UNION {UNION {Hashes(results[w][i].addresses) : i \in 1..Len(results[w])} :
              w \in Writers}

\* C10: with no store in progress, block_names() yields the hashes that the
\* finished stores returned, each exactly once, in whichever order the
\* subdirectories and their entries are listed; with stores in progress it
\* still yields each of those hashes, and none twice.
C10_BlockNamesExact ==
    names.listed =>
        LET yielded == {names.seq[j] : j \in 1..Len(names.seq)}
        IN  /\ Len(names.seq) = Cardinality(yielded)
            /\ StoredHashes \subseteq yielded
            /\ Quiescent => yielded = StoredHashes

\* two blocks of one subdirectory and one of another are listed, no store running
C10_Witness ==
    /\ names.listed
    /\ Quiescent
    /\ Len(names.seq) >= 3
    /\ \E j, k \in 1..Len(names.seq) :
          /\ j # k
          /\ block_name_to_subdirectory(names.seq[j]) = block_name_to_subdirectory(names.seq[k])
    /\ \E j, k \in 1..Len(names.seq) :
          block_name_to_subdirectory(names.seq[j]) # block_name_to_subdirectory(names.seq[k])

\* an entry iter_block_dir_entries may yield under the name n: a regular file
\* of BLOCKDIR_FILE_NAME_LEN characters, not tmp-prefixed, in a subdirectory
\* of SUBDIR_NAME_CHARS characters
IsStoredBlockName(n) ==
    /\ Len(n) = BLOCKDIR_FILE_NAME_LEN
    /\ SubSeq(n, 1, 3) # "tmp"
    /\ \E p \in DOMAIN files :
          /\ p[2] = n
          /\ p \notin nested
          /\ Len(p[1]) = SUBDIR_NAME_CHARS

\* C11: block_names() yields, and validate() decompresses, only regular files
\* with a name of exactly 128 characters that does not start with tmp, in a
\* subdirectory with a name of exactly 3 characters; tmp files (those of a
\* store in progress too), directories and the entries of other
\* subdirectories are skipped, and as long as every directory can be listed
\* neither enumeration fails.
C11_OnlyBlockEntries ==
    /\ names.listed => \A j \in 1..Len(names.seq) : IsStoredBlockName(names.seq[j])
    /\ validation.done => \A n \in validation.checked : IsStoredBlockName(n)
    /\ unreadable = {} =>
          /\ names.outcome \in {"none", "ok"}
          /\ validation.done => validation.outcome \notin {"ListBlocks", "panic"}

\* the directory is listed while it holds a published block, the part-written
\* temporary file of a store, a tmp file as long as a block name and a block
\* name in a subdirectory of four characters
C11_Witness ==
    /\ names.listed
    /\ Len(names.seq) = 1
    /\ pc[1] = "write"
    /\ TmpPath(1) \in DOMAIN files
    /\ OutsideFiles =
          {<<"010", TMP_PREFIX \o SubSeq(OtherHash, 4, BLOCKDIR_FILE_NAME_LEN)>>,
           <<"0000", OtherHash>>}

\* no store_file_content call is in progress
NoStoreRunning == \A w \in Writers : pc[w] \in {"idle", "done", "failed"}

\* the block files now in the directory, by what validation finds in them
UndecodableBlocks ==
    {bn \in block_names_and_sizes : get_block_content(bn).outcome # "ok"}

WrongHashBlocks ==
    {bn \in block_names_and_sizes \ UndecodableBlocks :
        hash_bytes(get_block_content(bn).bytes) # bn}

\* C12: with no store in progress, every directory listable and every block
\* file as a store left it, validate() returns Ok with block_hash_wrong = 0
\* and block_decompression_failed = 0, having checked every block.
C12_ValidateClean ==
    (/\ validation.done
     /\ NoStoreRunning
     /\ unreadable = {}
     /\ \A p \in OutsideFiles : ~IsBlockEntry(p[2]))
    => /\ validation.outcome = "ok"
       /\ validation.stats.block_hash_wrong = 0
       /\ validation.stats.block_decompression_failed = 0
       /\ StoredHashes \subseteq validation.checked
       /\ validation.checked = block_names_and_sizes

\* a finished store left two blocks and validate() checked both
C12_Witness ==
    /\ validation.done
    /\ pc[1] = "done"
    /\ Cardinality(validation.checked) = 2
    /\ Cardinality(Hashes(addresses[1])) = 2
    /\ OutsideFiles = {}

\* C13: validate() returns stats whose block_hash_wrong is the number of
\* blocks whose content hashes to another name than the file's (here: with no
\* store in progress, every directory listable and every block decompressible).
C13_CountsWrongHashes ==
    (/\ validation.done
     /\ NoStoreRunning
     /\ unreadable = {}
     /\ UndecodableBlocks = {})
    => /\ validation.outcome = "ok"
       /\ validation.stats.block_hash_wrong = Cardinality(WrongHashBlocks)

\* C14: a block that cannot be read or decompressed is counted in
\* block_decompression_failed and validate() still returns Ok, having checked
\* every other block (here: with no block of a wrong hash).
C14_CountsUndecodable ==
    (/\ validation.done
     /\ NoStoreRunning
     /\ unreadable = {}
     /\ WrongHashBlocks = {})
    => /\ validation.outcome = "ok"
       /\ validation.stats.block_decompression_failed = Cardinality(UndecodableBlocks)
       /\ validation.checked = block_names_and_sizes

\* the address asks for a part of a block: not from its start, or not of the
\* length the block decompresses to
IsPartialRead(addr) ==
    \/ addr.start # 0
    \/ /\ get_block_content(addr.hash).outcome = "ok"
       /\ Len(get_block_content(addr.hash).bytes) # addr.len

\* C15: get() of an address with start # 0, or with a len that is not the
\* decompressed length of the block, returns the unsupported-partial-read
\* error to its caller, with no data.
C15_PartialReadIsError ==
    (got.tried /\ IsPartialRead(got.addr))
    => got.outcome = "UnsupportedPartialRead" /\ got.bytes = <<>>

\* C16: every counter name blockdir.rs increments is one the Report
\* recognizes, so that no increment of the core is rejected as unregistered.
C16_CoreNamesKnown == rejected \cap CoreCounterNames = {}

C18_GetCountsRead ==
    \A w \in Writers :
        (pc[w] = "done" /\ back[w].ok) => report[w]["block.read"] = back[w].n

\* C19: validate() fails with ListBlocks when BlockDir.path cannot be listed;
\* when only subdirectories cannot be listed it skips them and goes on: with
\* every block intact it returns Ok, having checked the blocks of the
\* subdirectories it could list.
C19_ShardErrorSkipped ==
    validation.done =>
        /\ Root \in unreadable => validation.outcome = "ListBlocks"
        /\ (/\ Root \notin unreadable
            /\ UndecodableBlocks = {}
            /\ WrongHashBlocks = {})
           => /\ validation.outcome = "ok"
              /\ validation.checked =
                    UNION {ShardEntries(s) : s \in subdirs \ unreadable}

\* C20: a call whose reader failed returned the StoreFile error with the
\* call's apath and no address list; it incremented none of file.empty,
\* file.medium, file.large; the blocks of the windows it had stored are in
\* the directory.
C20_ReadErrorSurfaced ==
    \A w \in Writers :
        /\ pc[w] # "failed" => failure[w] = NoError
        /\ pc[w] = "failed" =>
              /\ failure[w] = [kind |-> "StoreFile", apath |-> apath(w)]
              /\ Len(results[w]) = calls[w] - 1
              /\ \A counter_name \in {"file.empty", "file.medium", "file.large"} :
                    report[w][counter_name] =
                        (IF results[w] = <<>> THEN 0
                         ELSE results[w][Len(results[w])].report[counter_name])
              /\ \A j \in 1..Len(addresses[w]) :
                    path_for_file(addresses[w][j].hash) \in DOMAIN files

\* the reader failed after the call had written one block
C20_Witness ==
    /\ pc[1] = "failed"
    /\ Len(addresses[1]) = 1
    /\ Written(1) = 1
    /\ from_file[1] # <<>>

\* C21: in every Report, for every known counter name, get_count answers the
\* sum of the deltas passed to increment for that name so far, 0 if there
\* were none; so an increment of one counter leaves every other counter as
\* it was.
C21_CountsSumDeltas ==
    \A i \in DOMAIN count :
        \A n \in KnownNames : get_count(count[i], n) = passed[i][n]

\* a Report that was passed 1 and 1 for one name and 1 for another
C21_Witness ==
    \E i \in DOMAIN count :
        /\ ~merged.done
        /\ passed[i]["block.read.count"] = 2
        /\ passed[i]["block.read.corrupt"] = 1
        /\ passed[i]["block.write.count"] = 0
        /\ get_count(count[i], "block.read.count") = 2

\* C22: right after r1.merge_from(&r2), for every name get_count of r1 is
\* what r1 held before plus what r2 holds, and r2 is as it was.
C22_MergeAdds ==
    merged.done =>
        LET r1 == merged.self
            r2 == merged.from_report
        IN  /\ \A n \in KnownNames \cup CoreCounterNames :
                  get_count(count[r1], n) =
                      get_count(merged.before[r1], n) + get_count(merged.before[r2], n)
            /\ count[r2] = merged.before[r2]

\* as in tests::merge_reports: both Reports hold counts, one name in common
C22_Witness ==
    /\ merged.done
    /\ merged.before[merged.self]["block.read.count"] = 1
    /\ merged.before[merged.self]["block.read.corrupt"] = 1
    /\ merged.before[merged.from_report]["block.read.corrupt"] = 1
    /\ merged.before[merged.from_report]["block.write.count"] = 1
    /\ get_count(count[merged.self], "block.read.corrupt") = 2

\* C23: whatever was read through a LocalTransport before, a read_file call
\* that succeeds returns exactly the content of the file it named, and the
\* buffer holds nothing else; a clone starts with an empty buffer, whatever
\* the buffer of the transport it was cloned from holds.
C23_ReadFileExact ==
    /\ (returned.op = "read_file" /\ returned.outcome = "ok") =>
            /\ returned.bytes = RootFiles[returned.relpath]
            /\ read_buf[returned.transport] = RootFiles[returned.relpath]
    /\ returned.op = "clone" =>
            /\ read_buf[returned.transport] = <<>>
            /\ returned.transport # returned.of

\* a short file read through a transport whose buffer held a longer one,
\* while another transport's buffer holds a file too
C23_Witness ==
    /\ returned.op = "read_file"
    /\ returned.outcome = "ok"
    /\ returned.relpath = "a"
    /\ returned.before = RootFiles["poem.txt"]
    /\ \E u \in DOMAIN read_buf \ {returned.transport} :
          read_buf[u] = RootFiles["poem.txt"]

C25_AddressesInStreamOrder ==
    \A w \in Writers : \A i \in 1..Len(results[w]) :
        LET r == results[w][i]
            lens == [j \in 1..Len(r.addresses) |-> r.addresses[j].len]
        IN  /\ Len(r.addresses) = Len(r.reads)
            /\ \A j \in 1..Len(r.addresses) :
                  /\ r.addresses[j].hash = hash_bytes(Window(r.source, r.reads, j))
                  /\ r.addresses[j].start = 0
                  /\ r.addresses[j].len = r.reads[j]
                  /\ 1 <= r.addresses[j].len
                  /\ r.addresses[j].len <= MAX_BLOCK_SIZE
            /\ SumSeq(lens) = r.sizes.uncompressed
            /\ SumSeq(lens) = SumSeq(r.reads)
            /\ SumSeq(lens) = Len(r.source)

\* a call of three windows, the third a repeat of the first and so found
\* present, the second another block
C25_Witness ==
    \E i \in 1..Len(results[1]) :
        LET r == results[1][i]
        IN  /\ Len(r.addresses) = 3
            /\ r.addresses[1].hash = r.addresses[3].hash
            /\ r.addresses[1].hash # r.addresses[2].hash
            /\ r.addresses[1].len = 1
            /\ r.addresses[2].len = 2
            /\ r.report["block.already_present"] >= 1
            /\ r.report["block.write"] >= 2

\* the handle is between creating its temporary file and the end of its put
InPut(w) == pc[w] \in {"write", "persist", "close"}

TmpFiles == {p \in DOMAIN files : IsPrefix(TMP_PREFIX, p[2])}

ValidateReturn(v) == [f \in DOMAIN v \ {"checked"} |-> v[f]]

\* C27: with no store running, whatever order the workers take the blocks
\* in, validate() of the directory as it stands returns one and the same
\* stats or error, also when several blocks are corrupt.
C27_ValidateOrderIndependent ==
    NoStoreRunning =>
        \A v1, v2 \in validate : ValidateReturn(v1) = ValidateReturn(v2)

\* every window for which a handle's store has returned, or for which
\* contains() answered true, is in the directory and reads back as the window
StoredStaysReadable ==
    \A w \in Writers : \A i \in 1..Len(addresses[w]) :
        LET hash == addresses[w][i].hash
        IN  /\ contains(hash)
            /\ get_block_content(hash).outcome = "ok"
            /\ get_block_content(hash).bytes = Window(source[w], reads[w], i)

\* a step in which a handle gets the answer of contains()
ContainsAnswers ==
    \E w \in Writers : pc[w] = "contains" /\ pc'[w] # "contains"

\* C28: from the moment a store of a window has returned, or contains() has
\* answered true for its hash, contains() of that hash is true and
\* get_block_content gives the window's bytes in every later state, whatever
\* the other handles store, read, list or validate meanwhile; and a step
\* that answers contains() leaves the directory as it was.
C28_ContainsStable ==
    /\ []StoredStaysReadable
    /\ [][ContainsAnswers => UNCHANGED fsVars]_vars

\* a handle's store of a window had returned when the other handle renamed
\* its own file over the block; both have finished and validate() has run
C28_Witness ==
    \E w \in Writers :
        /\ pc[w] = "done"
        /\ Len(addresses[w]) = 1
        /\ Written(w) = 1 /\ AlreadyPresent(w) = 0
        /\ files[path_for_file(addresses[w][1].hash)].ino[1] # w
        /\ \A o \in Writers : pc[o] = "done"
        /\ validation.done
        /\ validation.outcome = "ok"

\* the entries the loop has passed
Passed == {SourceTree[i] : i \in 1..(copying.next - 1)}

\* the apaths handed to dest.copy_dir, copy_file or copy_symlink
Handed == {copying.handed[i].apath : i \in 1..Len(copying.handed)}

\* every component of only_subtree equals the component of the apath at its
\* position
ComponentsMatch(only_subtree, entry_apath) ==
    \A i \in 1..Len(split(only_subtree)) :
        /\ i <= Len(split(entry_apath))
        /\ split(only_subtree)[i] = split(entry_apath)[i]

\* C29 as stated: copy_tree copies (hands to the destination) an entry if
\* and only if only_subtree is empty or its components match the entry's
\* apath position by position; an entry with fewer components is skipped;
\* no index into the entry's components is out of range.
C29_CopiesIffSelected ==
    copying.phase # "none" =>
        /\ copying.phase # "panic"
        /\ \A e \in Passed :
              e.apath \in Handed <=>
                  (copying.only_subtree = ""
                   \/ ComponentsMatch(copying.only_subtree, e.apath))

\* C29, amended: an entry of kind Dir, File or Symlink is handed to the
\* destination if and only if only_subtree is empty or its components match
\* the entry's apath position by position; an entry of kind Unknown is
\* counted and never handed over; an entry with fewer components than
\* only_subtree is skipped; no index into the entry's components is out of
\* range.
C29_CopiesKnownKindsIffSelected ==
    copying.phase # "none" =>
        /\ copying.phase # "panic"
        /\ \A e \in Passed :
              /\ e.apath \in Handed <=>
                    /\ e.kind # "Unknown"
                    /\ \/ copying.only_subtree = ""
                       \/ ComponentsMatch(copying.only_subtree, e.apath)
              /\ (copying.only_subtree # ""
                  /\ Len(split(e.apath)) < Len(split(copying.only_subtree)))
                    => e.apath \notin Handed

\* copy_tree with only_subtree "/a/b" has returned: it skipped the shorter
\* "/" and "/a" and the others outside, and handed over "/a/b" and "/a/b/c"
C29_Witness ==
    /\ copying.phase = "done"
    /\ copying.only_subtree = "/a/b"
    /\ Handed = {"/a/b", "/a/b/c"}

====
